---- MODULE Spec2Model ----
(***************************************************************************)
(* Topology construction and route computation of the congestion-aware     *)
(* 2D meshes: Mesh2D (dense, XY routing) and SparseMesh2D (holes, BFS      *)
(* routing, automatic or custom NPU numbering).                            *)
(*                                                                         *)
(* Coordinates are pairs <<x, y>>.  C++ vectors indexed from 0 are         *)
(* sequences indexed from 1: vector[i] is seq[i + 1].  A Route is the      *)
(* sequence of the ids of its devices (devices[i] is the device of id i).  *)
(***************************************************************************)
EXTENDS Integers, Sequences, FiniteSets, TLC

\* ---------------------------------------------------------------- bounds
\* longest side and most cells (width*height) of a dense or auto-numbered
\* sparse grid
MaxSide == 3
MaxCells == 6
\* largest exclusion set handed to the auto-numbering constructor
MaxExcluded == 2
\* longest side and most cells of a custom-placement grid, its largest
\* exclusion set and its largest placement map
MaxPlaceSide == 2
MaxPlaceCells == 4
MaxPlaceExcluded == 1
MaxPlacement == 2
\* construct_topology: most dimensions, largest flat device count and
\* largest explicit mesh width / height the parser hands over
MaxDims == 2
MaxFlatCount == 17
MaxSelectSide == 2
\* interleaved route() calls: most cells of the grid, largest exclusion
\* set and largest placement map
MaxSharedCells == 4
MaxSharedExcluded == 1
MaxSharedPlacement == 1

\* full grids (no hole) of sides up to MaxFullSide, dense and sparse
MaxFullSide == 3

\* the runs that check termination: placement maps of at most this size
MaxLivePlacement == 1

VARIABLES
    ctor,             \* which constructor built the object
    pc,               \* position in the constructor or in route()
    width, height,    \* Mesh2D::width/height, SparseMesh2D::width/height
    excluded,         \* SparseMesh2D::excluded
    npu_placement,    \* constructor parameter: the entries <<coordinate, id>>
    npus_count,       \* device count handed to BasicTopology
    valid_npu_count,  \* SparseMesh2D::valid_npu_count
    grid_to_npu,      \* SparseMesh2D::grid_to_npu (index y*width+x)
    npu_to_grid,      \* SparseMesh2D::npu_to_grid
    used_npu_ids,     \* constructor local
    pending,          \* placement keys the range-for has not reached yet
    next_auto_id,     \* constructor local (fallback)
    cursor,           \* row-major position y*width+x of the nested for loops
    links,            \* directed links registered by connect, in order
    link_count,       \* constructor local
    src, dest,        \* arguments of the running route() call
    q, visited,       \* bfs_route locals
    parent,           \* bfs_route local: the entries <<coordinate, predecessor>>
    current, path,        \* bfs_route path reconstruction locals
    wx, wy,           \* Mesh2D::route locals x and y
    route,            \* the Route being built / returned
    oob,              \* TRUE once a vector was indexed out of range
    dims_count,       \* network_parser.get_dims_count()
    topology_type,    \* network_parser.get_topologies_per_dim()[0]
    parser_npus_count,  \* network_parser.get_npus_counts_per_dim()[0]
    mesh_width,       \* network_parser.get_mesh_width()
    mesh_height,      \* network_parser.get_mesh_height()
    other             \* a second route() call, suspended: its position
                      \* and its locals

vars == <<ctor, pc, width, height, excluded, npu_placement, npus_count,
          valid_npu_count, grid_to_npu, npu_to_grid, used_npu_ids, pending,
          next_auto_id, cursor, links, link_count, src, dest, q, visited,
          parent, current, path, wx, wy, route, oob, dims_count,
          topology_type, parser_npus_count, mesh_width, mesh_height, other>>

tables == <<width, height, excluded, npus_count, valid_npu_count,
            grid_to_npu, npu_to_grid, links>>

ctor_locals == <<used_npu_ids, pending, next_auto_id, link_count>>

query == <<src, dest, q, visited, parent, current, path, wx, wy, route>>

\* what construct_topology read from the network parser
parser == <<dims_count, topology_type, parser_npus_count, mesh_width,
            mesh_height>>

\* ------------------------------------------------------- small helpers
Abs(n) == IF n < 0 THEN -n ELSE n

RECURSIVE Reverse(_)
Reverse(s) == IF s = <<>> THEN <<>> ELSE Append(Reverse(Tail(s)), Head(s))

\* the cells of a w x h grid
Cells(w, h) == (0..(w - 1)) \X (0..(h - 1))

\* the width x height grids of sides up to side and of at most n cells
Grids(side, n) == {g \in (1..side) \X (1..side) : g[1] * g[2] <= n}

\* one coordinate beyond each of the four grid borders
Outside(w, h) == {<<-1, 0>>, <<0, -1>>, <<w, 0>>, <<0, h>>}

\* the coordinate right of the first row: y*width+x is the index of (0, 1)
Beyond(w, h) == {<<w, 0>>}

\* std::set / std::map order of std::pair<int,int>: by x, then by y
PairLess(a, b) == a[1] < b[1] \/ (a[1] = b[1] /\ a[2] < b[2])

FirstKey(S) == CHOOSE a \in S : \A b \in S \ {a} : PairLess(a, b)

\* ------------------------------------------------ SparseMesh2D helpers
RECURSIVE CountExcluded(_, _, _)
CountExcluded(w, h, ex) ==
    IF ex = {} THEN 0
    ELSE LET c == FirstKey(ex) IN
         (IF c[1] >= 0 /\ c[1] < w /\ c[2] >= 0 /\ c[2] < h THEN 1 ELSE 0)
           + CountExcluded(w, h, ex \ {c})

\* mutant: every excluded coordinate is counted, inside the grid or not
calculate_valid_npu_count_unbounded(w, h, ex) == (w * h) - Cardinality(ex)

calculate_valid_npu_count(w, h, ex) == (w * h) - CountExcluded(w, h, ex)

coords_to_grid_index(x, y) == (y * width) + x

\* mutant: only the grid bounds are tested, not the exclusion set
is_valid_position_bounds_only(x, y) ==
    ~(x < 0 \/ x >= width \/ y < 0 \/ y >= height)

is_valid_position(x, y) ==
    IF x < 0 \/ x >= width \/ y < 0 \/ y >= height
    THEN FALSE
    ELSE <<x, y>> \notin excluded

get_npu_at(x, y) ==
    IF x < 0 \/ x >= width \/ y < 0 \/ y >= height
    THEN -1
    ELSE grid_to_npu[coords_to_grid_index(x, y) + 1]

get_coords(npu_id) == npu_to_grid[npu_id + 1]

\* ---------------------------------------------------------- Mesh2D helpers
\* mutant: the id is decomposed by the height instead of the width
get_2d_coords_by_height(npu_id) == <<npu_id % height, npu_id \div height>>

get_2d_coords(npu_id) == <<npu_id % width, npu_id \div width>>

\* mutant: the row is scaled by the height instead of the width
coords_to_npu_id_by_height(x, y) == (y * height) + x

coords_to_npu_id(x, y) == (y * width) + x

manhattan_distance(s, d) ==
    LET sc == get_2d_coords(s)
        dc == get_2d_coords(d)
    IN  Abs(dc[1] - sc[1]) + Abs(dc[2] - sc[2])

\* ------------------------------------------------- Topology::connect
\* bidirectional connect: one directed link each way
connect(ls, a, b) == ls \o <<(<<a, b>>), (<<b, a>>)>>

\* ------------------------------------------------------------------ Init
NoQuery ==
    /\ src = -1 /\ dest = -1
    /\ q = <<>> /\ visited = {} /\ parent = {}
    /\ current = <<-1, -1>> /\ path = <<>>
    /\ wx = 0 /\ wy = 0
    /\ route = <<>>

NoCtorLocals ==
    /\ used_npu_ids = {} /\ next_auto_id = 0 /\ link_count = 0

\* the constructor is called directly: nothing was read from a parser
NoParser ==
    /\ dims_count = 0 /\ topology_type = "none" /\ parser_npus_count = 0
    /\ mesh_width = 0 /\ mesh_height = 0

\* a route() call that has not started
Idle ==
    [pc |-> "ready", src |-> -1, dest |-> -1, q |-> <<>>, visited |-> {},
     parent |-> {}, current |-> <<-1, -1>>, path |-> <<>>, wx |-> 0,
     wy |-> 0, route |-> <<>>]

\* Mesh2D(width, height, ...) after the base class initialiser
InitDense ==
    \E g \in Grids(MaxSide, MaxCells) : LET w == g[1]  h == g[2] IN
        /\ ctor = "dense" /\ pc = "dense_links"
        /\ width = w /\ height = h
        /\ excluded = {} /\ npu_placement = {}
        /\ npus_count = w * h
        /\ valid_npu_count = 0
        /\ grid_to_npu = <<>> /\ npu_to_grid = <<>>

\* SparseMesh2D(width, height, excluded, ...) after the initialiser list
\* and grid_to_npu.resize(width*height, -1); valid_npu_count = 0
InitAuto ==
    \E g \in Grids(MaxSide, MaxCells) : LET w == g[1]  h == g[2] IN
    \E ex \in {S \in SUBSET (Cells(w, h) \cup Outside(w, h)) :
                   Cardinality(S) <= MaxExcluded} :
        /\ ctor = "auto" /\ pc = "assign"
        /\ width = w /\ height = h
        /\ excluded = ex /\ npu_placement = {}
        /\ npus_count = calculate_valid_npu_count(w, h, ex)
        /\ valid_npu_count = 0
        /\ grid_to_npu = [i \in 1..(w * h) |-> -1]
        /\ npu_to_grid = <<>>

\* the placement maps handed to the custom constructor: at most
\* MaxPlacement entries, coordinates in or just outside the grid, ids in or
\* just outside [0, n)
Placements(w, h, n) ==
    UNION {{{<<c, f[c]>> : c \in D} : f \in [D -> (-1)..n]} :
             D \in {S \in SUBSET (Cells(w, h) \cup Outside(w, h)) :
                        Cardinality(S) <= MaxPlacement}}

\* SparseMesh2D(width, height, excluded, npu_placement, ...) after the
\* initialiser list, valid_npu_count = expected_count and the two resizes
InitCustom ==
    \E g \in Grids(MaxPlaceSide, MaxPlaceCells) : LET w == g[1]  h == g[2] IN
    \E ex \in {S \in SUBSET (Cells(w, h) \cup Beyond(w, h)) :
                   Cardinality(S) <= MaxPlaceExcluded} :
    \E pl \in Placements(w, h, calculate_valid_npu_count(w, h, ex)) :
        /\ ctor = "custom" /\ pc = "place"
        /\ width = w /\ height = h
        /\ excluded = ex /\ npu_placement = pl
        /\ npus_count = calculate_valid_npu_count(w, h, ex)
        /\ valid_npu_count = calculate_valid_npu_count(w, h, ex)
        /\ grid_to_npu = [i \in 1..(w * h) |-> -1]
        /\ npu_to_grid =
              [i \in 1..calculate_valid_npu_count(w, h, ex) |-> <<0, 0>>]

Init ==
    /\ InitDense \/ InitAuto \/ InitCustom
    /\ cursor = 0
    /\ links = <<>>
    /\ oob = FALSE
    /\ NoCtorLocals
    /\ pending = {e[1] : e \in npu_placement}
    /\ NoQuery
    /\ NoParser
    /\ other = Idle

\* ------------------------------------- SparseMesh2D, automatic numbering
\* mutant: the loops are nested the other way round (x outside, y inside)
AssignStepColumnMajor ==
    /\ pc = "assign"
    /\ LET x == cursor \div height
           y == cursor % height
       IN  IF <<x, y>> \notin excluded
           THEN /\ grid_to_npu' = [grid_to_npu EXCEPT
                       ![coords_to_grid_index(x, y) + 1] = valid_npu_count]
                /\ npu_to_grid' = Append(npu_to_grid, <<x, y>>)
                /\ valid_npu_count' = valid_npu_count + 1
           ELSE UNCHANGED <<grid_to_npu, npu_to_grid, valid_npu_count>>
    /\ IF cursor + 1 < width * height
       THEN cursor' = cursor + 1 /\ pc' = pc
       ELSE cursor' = 0 /\ pc' = "auto_links"
    /\ UNCHANGED <<parser, other, ctor, width, height, excluded,
                   npu_placement, npus_count, links, oob>>
    /\ UNCHANGED ctor_locals
    /\ UNCHANGED query

\* one iteration of the row-major numbering loops
AssignStep ==
    /\ pc = "assign"
    /\ LET x == cursor % width
           y == cursor \div width
       IN  IF <<x, y>> \notin excluded
           THEN /\ grid_to_npu' = [grid_to_npu EXCEPT
                       ![coords_to_grid_index(x, y) + 1] = valid_npu_count]
                /\ npu_to_grid' = Append(npu_to_grid, <<x, y>>)
                /\ valid_npu_count' = valid_npu_count + 1
           ELSE UNCHANGED <<grid_to_npu, npu_to_grid, valid_npu_count>>
    /\ IF cursor + 1 < width * height
       THEN cursor' = cursor + 1 /\ pc' = pc
       ELSE cursor' = 0 /\ pc' = "auto_links"
    /\ UNCHANGED <<parser, other, ctor, width, height, excluded, npu_placement, npus_count,
                   links, oob>>
    /\ UNCHANGED ctor_locals
    /\ UNCHANGED query

\* --------------------------------------- SparseMesh2D, custom placement
placement_in_bounds(x, y) == ~(x < 0 \/ x >= width \/ y < 0 \/ y >= height)

\* mutant: the exclusion check of a placement entry is missing
placement_not_excluded_unchecked(x, y) == TRUE

placement_not_excluded(x, y) == ~(<<x, y>> \in excluded)

placement_id_in_range(npu_id) == ~(npu_id < 0 \/ npu_id >= valid_npu_count)

\* mutant: the duplicate check of a placement entry is missing
placement_id_unused_unchecked(npu_id) == TRUE

placement_id_unused(npu_id) == ~(npu_id \in used_npu_ids)

\* mutant: the entries are taken in row-major order of their coordinates
\* (by y, then by x)
next_placement_row_major ==
    CHOOSE a \in pending :
        \A b \in pending \ {a} : PairLess(<<a[2], a[1]>>, <<b[2], b[1]>>)

\* the entry the range-for over the std::map reaches next
next_placement == FirstKey(pending)

placement_id(coord) == (CHOOSE e \in npu_placement : e[1] = coord)[2]

\* one iteration of the placement loop
PlaceStep ==
    /\ pc = "place"
    /\ pending # {}
    /\ LET coord == next_placement
           x == coord[1]
           y == coord[2]
           npu_id == placement_id(coord)
       IN  /\ IF /\ placement_in_bounds(x, y)
                 /\ placement_not_excluded(x, y)
                 /\ placement_id_in_range(npu_id)
                 /\ placement_id_unused(npu_id)
              THEN /\ grid_to_npu' = [grid_to_npu EXCEPT
                          ![coords_to_grid_index(x, y) + 1] = npu_id]
                   /\ npu_to_grid' = [npu_to_grid EXCEPT
                          ![npu_id + 1] = <<x, y>>]
                   /\ used_npu_ids' = used_npu_ids \cup {npu_id}
              ELSE UNCHANGED <<grid_to_npu, npu_to_grid, used_npu_ids>>
           /\ pending' = pending \ {coord}
    /\ UNCHANGED <<parser, other, ctor, pc, width, height, excluded, npu_placement,
                   npus_count, valid_npu_count, next_auto_id, cursor, links,
                   link_count, oob>>
    /\ UNCHANGED query

\* the placement loop is over: are all ids assigned?
PlaceDone ==
    /\ pc = "place"
    /\ pending = {}
    /\ IF Cardinality(used_npu_ids) # valid_npu_count
       THEN pc' = "fill"
       ELSE pc' = "custom_links"
    /\ next_auto_id' = 0
    /\ cursor' = 0
    /\ UNCHANGED <<parser, other, ctor, width, height, excluded, npu_placement, npus_count,
                   valid_npu_count, grid_to_npu, npu_to_grid, used_npu_ids,
                   pending, links, link_count, oob>>
    /\ UNCHANGED query

\* mutant: the fallback takes the highest id not yet used
next_unused_id_from_top(id, used) ==
    CHOOSE k \in 0..(valid_npu_count - 1) :
        /\ k \notin used
        /\ \A j \in 0..(valid_npu_count - 1) : j \notin used => j <= k

\* mutant: the fallback takes next_auto_id without skipping used ids
next_unused_id_no_skip(id, used) == id

\* while (used_npu_ids.count(next_auto_id)) next_auto_id++;
RECURSIVE next_unused_id(_, _)
next_unused_id(id, used) ==
    IF id \in used THEN next_unused_id(id + 1, used) ELSE id

\* one iteration of the fallback loops
FillStep ==
    /\ pc = "fill"
    /\ LET x == cursor % width
           y == cursor \div width
           grid_idx == coords_to_grid_index(x, y)
           id == next_unused_id(next_auto_id, used_npu_ids)
       IN  IF <<x, y>> \notin excluded /\ grid_to_npu[grid_idx + 1] < 0
           THEN /\ grid_to_npu' = [grid_to_npu EXCEPT ![grid_idx + 1] = id]
                /\ IF id < Len(npu_to_grid)
                   THEN /\ npu_to_grid' = [npu_to_grid EXCEPT
                               ![id + 1] = <<x, y>>]
                        /\ oob' = oob
                   ELSE /\ npu_to_grid' = npu_to_grid
                        /\ oob' = TRUE
                /\ used_npu_ids' = used_npu_ids \cup {id}
                /\ next_auto_id' = id + 1
           ELSE UNCHANGED <<grid_to_npu, npu_to_grid, used_npu_ids,
                            next_auto_id, oob>>
    /\ IF cursor + 1 < width * height
       THEN cursor' = cursor + 1 /\ pc' = pc
       ELSE cursor' = 0 /\ pc' = "custom_links"
    /\ UNCHANGED <<parser, other, ctor, width, height, excluded, npu_placement, npus_count,
                   valid_npu_count, pending, links, link_count>>
    /\ UNCHANGED query

\* ------------------------------------------------------- link creation
RECURSIVE connect_all(_, _)
connect_all(ls, calls) ==
    IF calls = <<>> THEN ls
    ELSE connect_all(connect(ls, Head(calls)[1], Head(calls)[2]), Tail(calls))

\* mutant: the right and bottom neighbours are connected without checking
\* that they are valid
auto_cell_connects_unchecked(x, y) ==
    LET current_npu == get_npu_at(x, y)
        right_npu == get_npu_at(x + 1, y)
        bottom_npu == get_npu_at(x, y + 1)
    IN  IF current_npu < 0 THEN <<>>
        ELSE (IF x + 1 < width
              THEN <<(<<current_npu, right_npu>>)>> ELSE <<>>)
             \o
             (IF y + 1 < height
              THEN <<(<<current_npu, bottom_npu>>)>> ELSE <<>>)

\* the connect calls of one cell of the auto-numbering constructor
auto_cell_connects(x, y) ==
    LET current_npu == get_npu_at(x, y)
        right_npu == get_npu_at(x + 1, y)
        bottom_npu == get_npu_at(x, y + 1)
    IN  IF current_npu < 0 THEN <<>>
        ELSE (IF x + 1 < width /\ right_npu >= 0
              THEN <<(<<current_npu, right_npu>>)>> ELSE <<>>)
             \o
             (IF y + 1 < height /\ bottom_npu >= 0
              THEN <<(<<current_npu, bottom_npu>>)>> ELSE <<>>)

\* mutant: a neighbour is connected only when its id is above the cell's
\* own, which row-major numbering always satisfies and a placement need not
custom_cell_connects_ascending(x, y) ==
    LET current_npu == get_npu_at(x, y)
        right_npu == get_npu_at(x + 1, y)
        bottom_npu == get_npu_at(x, y + 1)
    IN  IF current_npu < 0 THEN <<>>
        ELSE (IF x + 1 < width /\ right_npu > current_npu
              THEN <<(<<current_npu, right_npu>>)>> ELSE <<>>)
             \o
             (IF y + 1 < height /\ bottom_npu > current_npu
              THEN <<(<<current_npu, bottom_npu>>)>> ELSE <<>>)

\* the connect calls of one cell of the custom-placement constructor
custom_cell_connects(x, y) ==
    LET current_npu == get_npu_at(x, y)
        right_npu == get_npu_at(x + 1, y)
        bottom_npu == get_npu_at(x, y + 1)
    IN  IF current_npu < 0 THEN <<>>
        ELSE (IF x + 1 < width /\ right_npu >= 0
              THEN <<(<<current_npu, right_npu>>)>> ELSE <<>>)
             \o
             (IF y + 1 < height /\ bottom_npu >= 0
              THEN <<(<<current_npu, bottom_npu>>)>> ELSE <<>>)

\* mutant: the right neighbour test is off by one (x + 1 <= width)
dense_cell_connects_off_by_one(x, y) ==
    LET cur == coords_to_npu_id(x, y)
    IN  (IF x + 1 <= width
         THEN <<(<<cur, coords_to_npu_id(x + 1, y)>>)>> ELSE <<>>)
        \o
        (IF y + 1 < height
         THEN <<(<<cur, coords_to_npu_id(x, y + 1)>>)>> ELSE <<>>)

\* the connect calls of one cell of the dense constructor
dense_cell_connects(x, y) ==
    LET cur == coords_to_npu_id(x, y)
    IN  (IF x + 1 < width
         THEN <<(<<cur, coords_to_npu_id(x + 1, y)>>)>> ELSE <<>>)
        \o
        (IF y + 1 < height
         THEN <<(<<cur, coords_to_npu_id(x, y + 1)>>)>> ELSE <<>>)

\* one iteration of the link loops, registering the given connect calls
LinkLoop(calls) ==
    /\ links' = connect_all(links, calls)
    /\ link_count' = link_count + (2 * Len(calls))
    /\ IF cursor + 1 < width * height
       THEN cursor' = cursor + 1 /\ pc' = pc
       ELSE cursor' = 0 /\ pc' = "built"
    /\ UNCHANGED <<parser, other, ctor, width, height, excluded, npu_placement, npus_count,
                   valid_npu_count, grid_to_npu, npu_to_grid, used_npu_ids,
                   pending, next_auto_id, oob>>
    /\ UNCHANGED query

AutoLinkStep ==
    /\ pc = "auto_links"
    /\ LinkLoop(auto_cell_connects(cursor % width, cursor \div width))

CustomLinkStep ==
    /\ pc = "custom_links"
    /\ LinkLoop(custom_cell_connects(cursor % width, cursor \div width))

DenseLinkStep ==
    /\ pc = "dense_links"
    /\ LinkLoop(dense_cell_connects(cursor % width, cursor \div width))

\* the constructor returns: its parameters and locals are gone
Return ==
    /\ pc = "built"
    /\ pc' = "ready"
    /\ npu_placement' = {}
    /\ used_npu_ids' = {} /\ pending' = {} /\ next_auto_id' = 0
    /\ link_count' = 0
    /\ UNCHANGED <<parser, other, ctor, cursor, oob>>
    /\ UNCHANGED tables
    /\ UNCHANGED query

\* ------------------------------------------------- SparseMesh2D::route
\* mutant: the candidates are only tested against the grid bounds
get_valid_neighbors_in_bounds(x, y) ==
    LET cand == <<(<<x + 1, y>>), (<<x - 1, y>>), (<<x, y + 1>>), (<<x, y - 1>>)>>
    IN  SelectSeq(cand, LAMBDA n : /\ n[1] >= 0 /\ n[1] < width
                                   /\ n[2] >= 0 /\ n[2] < height)

\* mutant: the candidates are tried down, up, right, left
get_valid_neighbors_vertical_first(x, y) ==
    LET cand == <<(<<x, y + 1>>), (<<x, y - 1>>), (<<x + 1, y>>), (<<x - 1, y>>)>>
    IN  SelectSeq(cand, LAMBDA n : is_valid_position(n[1], n[2]))

\* the four candidates in the order of dx[] and dy[], filtered
get_valid_neighbors(x, y) ==
    LET cand == <<(<<x + 1, y>>), (<<x - 1, y>>), (<<x, y + 1>>), (<<x, y - 1>>)>>
    IN  SelectSeq(cand, LAMBDA n : is_valid_position(n[1], n[2]))

\* mutant: the newest element is taken (a stack instead of a queue)
bfs_dequeue_lifo(queue) ==
    [front |-> queue[Len(queue)], rest |-> SubSeq(queue, 1, Len(queue) - 1)]

\* q.front() and q.pop()
bfs_dequeue(queue) == [front |-> Head(queue), rest |-> Tail(queue)]

\* std::map operator[]: a missing key reads as a value-initialised pair
map_get(m, key) ==
    IF \E e \in m : e[1] = key
    THEN (CHOOSE e \in m : e[1] = key)[2]
    ELSE <<0, 0>>

\* std::map operator[] leaves a missing key inserted
map_touch(m, key) ==
    IF \E e \in m : e[1] = key THEN m ELSE m \cup {<<key, (<<0, 0>>)>>}

map_set(m, key, val) == {e \in m : e[1] # key} \cup {<<key, val>>}

\* mutant: every neighbour is enqueued, visited before or not
RECURSIVE bfs_explore_revisit(_, _, _)
bfs_explore_revisit(st, c, ns) ==
    IF ns = <<>> THEN st
    ELSE LET n == Head(ns) IN
         bfs_explore_revisit([visited |-> st.visited \cup {n},
                              parent |-> map_set(st.parent, n, c),
                              q |-> Append(st.q, n)], c, Tail(ns))

\* the "explore neighbors" loop over the cells ns, reached from cell c
RECURSIVE bfs_explore(_, _, _)
bfs_explore(st, c, ns) ==
    IF ns = <<>> THEN st
    ELSE LET n == Head(ns) IN
         IF n \notin st.visited
         THEN bfs_explore([visited |-> st.visited \cup {n},
                           parent |-> map_set(st.parent, n, c),
                           q |-> Append(st.q, n)], c, Tail(ns))
         ELSE bfs_explore(st, c, Tail(ns))

\* mutant: "no routing needed" returns an empty route
trivial_route_empty(s) == <<>>

\* route.push_back(devices[src]) of the two trivial cases
trivial_route(s) == <<s>>

\* mutant: an empty queue yields an empty route
no_path_route_empty(s) == <<>>

\* the route bfs_route returns when the queue runs empty
no_path_route(s) == <<s>>

\* the devices of a coordinate path
path_to_route(p) == [i \in 1..Len(p) |-> get_npu_at(p[i][1], p[i][2])]

IdsInRange(r, n) == \A i \in 1..Len(r) : r[i] >= 0 /\ r[i] < n

\* the ids a caller may pass: in [0, n) or just outside of it
RouteArgs(n) == (-1)..n

\* mutant: only src is checked
route_precondition_src_only(s, d, n) == 0 <= s /\ s < n

\* assert(0 <= src && src < n); assert(0 <= dest && dest < n);
route_precondition(s, d, n) == (0 <= s /\ s < n) /\ (0 <= d /\ d < n)

\* route(src, dest) is called on a sparse mesh
SparseRouteCall ==
    /\ pc = "ready"
    /\ ctor \in {"auto", "custom"}
    /\ \E s \in RouteArgs(valid_npu_count), d \in RouteArgs(valid_npu_count) :
          /\ src' = s /\ dest' = d
          /\ IF ~route_precondition(s, d, valid_npu_count)
             THEN /\ route' = <<>>
                  /\ pc' = "aborted"
                  /\ UNCHANGED <<q, visited, parent>>
             ELSE IF s = d
             THEN /\ route' = trivial_route(s)
                  /\ pc' = "returned"
                  /\ UNCHANGED <<q, visited, parent>>
             ELSE /\ route' = <<>>
                  /\ pc' = "bfs"
                  /\ q' = <<get_coords(s)>>
                  /\ visited' = {get_coords(s)}
                  /\ parent' = {<<get_coords(s), (<<-1, -1>>)>>}
    /\ UNCHANGED <<current, path, wx, wy>>
    /\ UNCHANGED <<parser, other, ctor, npu_placement, cursor, oob>>
    /\ UNCHANGED tables
    /\ UNCHANGED ctor_locals

\* one iteration of the BFS while loop, or its exit with an empty queue
BfsStep ==
    /\ pc = "bfs"
    /\ IF q = <<>>
       THEN /\ route' = no_path_route(src)
            /\ pc' = "returned"
            /\ q' = <<>> /\ visited' = {} /\ parent' = {}
            /\ UNCHANGED <<current, path>>
       ELSE LET d == bfs_dequeue(q)
                c == d.front
            IN  IF c = get_coords(dest)
                THEN /\ pc' = "reconstruct"
                     /\ current' = get_coords(dest)
                     /\ path' = <<>>
                     /\ q' = d.rest
                     /\ UNCHANGED <<visited, parent, route>>
                ELSE LET st == bfs_explore(
                                 [visited |-> visited, parent |-> parent,
                                  q |-> d.rest],
                                 c, get_valid_neighbors(c[1], c[2]))
                     IN  /\ visited' = st.visited
                         /\ parent' = st.parent
                         /\ q' = st.q
                         /\ UNCHANGED <<pc, current, path, route>>
    /\ UNCHANGED <<src, dest, wx, wy>>
    /\ UNCHANGED <<parser, other, ctor, npu_placement, cursor, oob>>
    /\ UNCHANGED tables
    /\ UNCHANGED ctor_locals

\* one iteration of the path reconstruction loop, or its exit followed by
\* the reverse, the coordinate -> device loop and the return
ReconstructStep ==
    /\ pc = "reconstruct"
    /\ IF current[1] # -1
       THEN /\ path' = Append(path, current)
            /\ current' = map_get(parent, current)
            /\ parent' = map_touch(parent, current)
            /\ UNCHANGED <<pc, route, q, visited, oob>>
       ELSE /\ route' = path_to_route(Reverse(path))
            /\ oob' = (oob \/ ~IdsInRange(path_to_route(Reverse(path)),
                                          npus_count))
            /\ pc' = "returned"
            /\ q' = <<>> /\ visited' = {} /\ parent' = {}
            /\ current' = <<-1, -1>> /\ path' = <<>>
    /\ UNCHANGED <<src, dest, wx, wy>>
    /\ UNCHANGED <<parser, other, ctor, npu_placement, cursor>>
    /\ UNCHANGED tables
    /\ UNCHANGED ctor_locals

\* ------------------------------------------------------- Mesh2D::route
\* route.push_back(devices[src]) before the two walks
xy_start(s) == <<s>>

xy_direction(from, to) == IF to > from THEN 1 ELSE -1

\* route(src, dest) is called on a dense mesh
DenseRouteCall ==
    /\ pc = "ready"
    /\ ctor = "dense"
    /\ \E s \in RouteArgs(npus_count), d \in RouteArgs(npus_count) :
          /\ src' = s /\ dest' = d
          /\ IF ~route_precondition(s, d, npus_count)
             THEN /\ route' = <<>>
                  /\ pc' = "aborted"
                  /\ UNCHANGED <<wx, wy>>
             ELSE IF s = d
             THEN /\ route' = trivial_route(s)
                  /\ pc' = "returned"
                  /\ UNCHANGED <<wx, wy>>
             ELSE /\ route' = xy_start(s)
                  /\ pc' = "xwalk"
                  /\ wx' = get_2d_coords(s)[1]
                  /\ wy' = get_2d_coords(s)[2]
    /\ UNCHANGED <<q, visited, parent, current, path>>
    /\ UNCHANGED <<parser, other, ctor, npu_placement, cursor, oob>>
    /\ UNCHANGED tables
    /\ UNCHANGED ctor_locals

\* one iteration of the X loop, or its exit
XStep ==
    /\ pc = "xwalk"
    /\ LET dest_x == get_2d_coords(dest)[1] IN
       IF wx # dest_x
       THEN LET x == wx + xy_direction(wx, dest_x)
                next_npu == coords_to_npu_id(x, wy)
            IN  /\ wx' = x
                /\ route' = Append(route, next_npu)
                /\ oob' = (oob \/ next_npu < 0 \/ next_npu >= npus_count)
                /\ pc' = pc
       ELSE /\ pc' = "ywalk"
            /\ UNCHANGED <<wx, route, oob>>
    /\ UNCHANGED <<src, dest, q, visited, parent, current, path, wy>>
    /\ UNCHANGED <<parser, other, ctor, npu_placement, cursor>>
    /\ UNCHANGED tables
    /\ UNCHANGED ctor_locals

\* one iteration of the Y loop, or its exit and the return
YStep ==
    /\ pc = "ywalk"
    /\ LET dest_y == get_2d_coords(dest)[2] IN
       IF wy # dest_y
       THEN LET y == wy + xy_direction(wy, dest_y)
                next_npu == coords_to_npu_id(wx, y)
            IN  /\ wy' = y
                /\ route' = Append(route, next_npu)
                /\ oob' = (oob \/ next_npu < 0 \/ next_npu >= npus_count)
                /\ pc' = pc
                /\ wx' = wx
       ELSE /\ pc' = "returned"
            /\ wx' = 0 /\ wy' = 0
            /\ UNCHANGED <<route, oob>>
    /\ UNCHANGED <<src, dest, q, visited, parent, current, path>>
    /\ UNCHANGED <<parser, other, ctor, npu_placement, cursor>>
    /\ UNCHANGED tables
    /\ UNCHANGED ctor_locals

\* the caller drops the returned route; the topology is ready again
QueryDone ==
    /\ pc = "returned"
    /\ pc' = "ready"
    /\ src' = -1 /\ dest' = -1 /\ route' = <<>>
    /\ UNCHANGED <<q, visited, parent, current, path, wx, wy>>
    /\ UNCHANGED <<parser, other, ctor, npu_placement, cursor, oob>>
    /\ UNCHANGED tables
    /\ UNCHANGED ctor_locals

\* ------------------------------------------- two route() calls at once
\* the positions of a caller of route()
QueryPhases == {"ready", "bfs", "reconstruct", "xwalk", "ywalk", "returned"}

\* mutant: q, visited and parent are one object for all calls
resumed_locals_shared(mine, running) == running

\* q, visited and parent are locals of bfs_route, x, y and route locals of
\* route: a resumed call finds its own
resumed_locals(mine, running) == mine

\* the running route() call is suspended and the other one goes on
Switch ==
    /\ pc \in QueryPhases
    /\ other' = [pc |-> pc, src |-> src, dest |-> dest, q |-> q,
                 visited |-> visited, parent |-> parent,
                 current |-> current, path |-> path, wx |-> wx, wy |-> wy,
                 route |-> route]
    /\ pc' = other.pc
    /\ src' = other.src /\ dest' = other.dest
    /\ q' = resumed_locals(other.q, q)
    /\ visited' = resumed_locals(other.visited, visited)
    /\ parent' = resumed_locals(other.parent, parent)
    /\ current' = other.current /\ path' = other.path
    /\ wx' = other.wx /\ wy' = other.wy
    /\ route' = other.route
    /\ UNCHANGED <<parser, ctor, npu_placement, cursor, oob>>
    /\ UNCHANGED tables
    /\ UNCHANGED ctor_locals

\* route() run from call to return with nothing in between: the BFS loop
RECURSIVE bfs_search(_, _)
bfs_search(st, goal) ==
    IF st.q = <<>> THEN [found |-> FALSE, parent |-> st.parent]
    ELSE LET d == bfs_dequeue(st.q)
             c == d.front
         IN  IF c = goal THEN [found |-> TRUE, parent |-> st.parent]
             ELSE bfs_search(
                      bfs_explore([visited |-> st.visited,
                                   parent |-> st.parent, q |-> d.rest],
                                  c, get_valid_neighbors(c[1], c[2])),
                      goal)

\* the path reconstruction loop
RECURSIVE bfs_backtrack(_, _, _)
bfs_backtrack(par, cur, p) ==
    IF cur[1] # -1
    THEN bfs_backtrack(par, map_get(par, cur), Append(p, cur))
    ELSE p

bfs_route_alone(s, d) ==
    LET r == bfs_search([visited |-> {get_coords(s)},
                         parent |-> {<<get_coords(s), (<<-1, -1>>)>>},
                         q |-> <<get_coords(s)>>],
                        get_coords(d))
    IN  IF r.found
        THEN path_to_route(
                 Reverse(bfs_backtrack(r.parent, get_coords(d), <<>>)))
        ELSE no_path_route(s)

\* the X loop and the Y loop
RECURSIVE xy_walk_x(_, _, _, _)
xy_walk_x(r, x, y, dest_x) ==
    IF x # dest_x
    THEN xy_walk_x(Append(r, coords_to_npu_id(x + xy_direction(x, dest_x), y)),
                   x + xy_direction(x, dest_x), y, dest_x)
    ELSE r

RECURSIVE xy_walk_y(_, _, _, _)
xy_walk_y(r, x, y, dest_y) ==
    IF y # dest_y
    THEN xy_walk_y(Append(r, coords_to_npu_id(x, y + xy_direction(y, dest_y))),
                   x, y + xy_direction(y, dest_y), dest_y)
    ELSE r

xy_route_alone(s, d) ==
    xy_walk_y(xy_walk_x(xy_start(s), get_2d_coords(s)[1], get_2d_coords(s)[2],
                        get_2d_coords(d)[1]),
              get_2d_coords(d)[1], get_2d_coords(s)[2], get_2d_coords(d)[2])

\* what route(s, d) returns when no other call runs
route_alone(s, d) ==
    IF s = d THEN trivial_route(s)
    ELSE IF ctor = "dense" THEN xy_route_alone(s, d)
    ELSE bfs_route_alone(s, d)

\* --------------------------------------------------- construct_topology
TopologyKinds ==
    {"Undefined", "Ring", "Switch", "FullyConnected", "Mesh2D", "SparseMesh2D"}

\* mutant: the square root is rounded up
RECURSIVE sqrt_to_int_ceiling(_, _)
sqrt_to_int_ceiling(n, w) ==
    IF w * w >= n THEN w ELSE sqrt_to_int_ceiling(n, w + 1)

\* static_cast<int>(std::sqrt(npus_count)): the root, truncated; w counts
\* up from 0 to it
RECURSIVE sqrt_to_int(_, _)
sqrt_to_int(n, w) ==
    IF (w + 1) * (w + 1) > n THEN w ELSE sqrt_to_int(n, w + 1)

\* mutant: more than one dimension is let through
single_dimension_or_more(d) == d >= 1

\* if (dims_count != 1) { ... std::exit(-1); }
single_dimension(d) == ~(d # 1)

\* mutant: one explicit side is enough
mesh_dims_given_either(w, h) == w > 0 \/ h > 0

\* Mesh2D case: if (mesh_width > 0 && mesh_height > 0)
mesh_dims_given(w, h) == w > 0 /\ h > 0

\* mutant: zero counts as an explicit side
sparse_dims_given_or_zero(w, h) == w >= 0 /\ h >= 0

\* SparseMesh2D case: if (mesh_width > 0 && mesh_height > 0)
sparse_dims_given(w, h) == w > 0 /\ h > 0

\* the exclusion sets and placement maps the parser hands over here: none,
\* or one entry at the last cell of the grid
ParserExcluded(w, h) == {{}, {<<w - 1, h - 1>>}}

ParserPlacement(w, h) == {{}, {<<(<<w - 1, h - 1>>), 0>>}}

\* a constructor's assert(width > 0); assert(height > 0); fails
CtorAssertFails(kind) ==
    /\ ctor' = kind /\ pc' = "ctor_aborted"
    /\ UNCHANGED <<npu_placement, pending, cursor, links, oob, other>>
    /\ UNCHANGED tables

\* Mesh2D(w, h, ...) is called: the state InitDense describes
CallMesh2D(w, h) ==
    IF w > 0 /\ h > 0
    THEN /\ ctor' = "dense" /\ pc' = "dense_links"
         /\ width' = w /\ height' = h
         /\ npus_count' = w * h
         /\ UNCHANGED <<excluded, npu_placement, pending, valid_npu_count,
                        grid_to_npu, npu_to_grid, cursor, links, oob, other>>
    ELSE CtorAssertFails("dense")

\* Mesh2D(npus_count, ...) delegates to Mesh2D(sqrt, sqrt, ...)
CallMesh2DFlat(n) == CallMesh2D(sqrt_to_int(n, 0), sqrt_to_int(n, 0))

\* SparseMesh2D(w, h, ex, ...) is called: the state InitAuto describes
CallSparseAuto(w, h, ex) ==
    IF w > 0 /\ h > 0
    THEN /\ ctor' = "auto" /\ pc' = "assign"
         /\ width' = w /\ height' = h
         /\ excluded' = ex
         /\ npus_count' = calculate_valid_npu_count(w, h, ex)
         /\ grid_to_npu' = [i \in 1..(w * h) |-> -1]
         /\ UNCHANGED <<npu_placement, pending, valid_npu_count,
                        npu_to_grid, cursor, links, oob, other>>
    ELSE CtorAssertFails("auto")

\* SparseMesh2D(w, h, ex, pl, ...) is called: the state InitCustom describes
CallSparseCustom(w, h, ex, pl) ==
    IF w > 0 /\ h > 0
    THEN /\ ctor' = "custom" /\ pc' = "place"
         /\ width' = w /\ height' = h
         /\ excluded' = ex /\ npu_placement' = pl
         /\ pending' = {e[1] : e \in pl}
         /\ npus_count' = calculate_valid_npu_count(w, h, ex)
         /\ valid_npu_count' = calculate_valid_npu_count(w, h, ex)
         /\ grid_to_npu' = [i \in 1..(w * h) |-> -1]
         /\ npu_to_grid' =
               [i \in 1..calculate_valid_npu_count(w, h, ex) |-> <<0, 0>>]
         /\ UNCHANGED <<cursor, links, oob, other>>
    ELSE CtorAssertFails("custom")

\* std::exit(-1) before any constructor ran
ConfigurationError ==
    /\ pc' = "exited"
    /\ UNCHANGED <<ctor, npu_placement, pending, cursor, links, oob, other>>
    /\ UNCHANGED tables

\* a Ring, Switch or FullyConnected is built by its own class
CallForeign ==
    /\ ctor' = "foreign" /\ pc' = "foreign"
    /\ UNCHANGED <<npu_placement, pending, cursor, links, oob, other>>
    /\ UNCHANGED tables

\* construct_topology(network_parser), up to the constructor it calls
construct_topology ==
    /\ pc = "select"
    /\ IF ~single_dimension(dims_count)
       THEN ConfigurationError
       ELSE CASE topology_type \in {"Ring", "Switch", "FullyConnected"} ->
                   CallForeign
              [] topology_type = "Mesh2D" ->
                   IF mesh_dims_given(mesh_width, mesh_height)
                   THEN CallMesh2D(mesh_width, mesh_height)
                   ELSE CallMesh2DFlat(parser_npus_count)
              [] topology_type = "SparseMesh2D" ->
                   IF sparse_dims_given(mesh_width, mesh_height)
                   THEN \E ex \in ParserExcluded(mesh_width, mesh_height),
                           pl \in ParserPlacement(mesh_width, mesh_height) :
                           IF pl # {}
                           THEN CallSparseCustom(mesh_width, mesh_height,
                                                 ex, pl)
                           ELSE CallSparseAuto(mesh_width, mesh_height, ex)
                   ELSE ConfigurationError
              [] OTHER -> ConfigurationError
    /\ UNCHANGED <<used_npu_ids, next_auto_id, link_count>>
    /\ UNCHANGED parser
    /\ UNCHANGED query

\* construct_topology is entered with what the parser read
SelectInit ==
    /\ pc = "select" /\ ctor = "none"
    /\ dims_count \in 0..MaxDims
    /\ topology_type \in TopologyKinds
    /\ parser_npus_count \in 0..MaxFlatCount
    /\ mesh_width \in (-1)..MaxSelectSide
    /\ mesh_height \in (-1)..MaxSelectSide
    /\ width = 0 /\ height = 0
    /\ excluded = {} /\ npu_placement = {} /\ pending = {}
    /\ npus_count = 0 /\ valid_npu_count = 0
    /\ grid_to_npu = <<>> /\ npu_to_grid = <<>>
    /\ cursor = 0 /\ links = <<>> /\ oob = FALSE
    /\ NoCtorLocals
    /\ NoQuery
    /\ other = Idle

\* ------------------------------------------------------- specification
Next ==
    \/ AssignStep
    \/ PlaceStep
    \/ PlaceDone
    \/ FillStep
    \/ AutoLinkStep
    \/ CustomLinkStep
    \/ DenseLinkStep
    \/ Return
    \/ SparseRouteCall
    \/ BfsStep
    \/ ReconstructStep
    \/ DenseRouteCall
    \/ XStep
    \/ YStep
    \/ QueryDone

Spec == Init /\ [][Next]_vars

\* the topology is built through construct_topology
SelectNext ==
    \/ construct_topology
    \/ Next

SelectSpec == SelectInit /\ [][SelectNext]_vars

\* a topology small enough for two route() calls at once
SharedInit ==
    /\ Init
    /\ width * height <= MaxSharedCells
    /\ excluded \subseteq Cells(width, height)
    /\ Cardinality(excluded) <= MaxSharedExcluded
    /\ Cardinality(npu_placement) <= MaxSharedPlacement

SharedNext ==
    \/ Switch
    \/ Next

SharedSpec == SharedInit /\ [][SharedNext]_vars

\* a call of route runs to its end: neither function waits for anything,
\* so each enabled step of its loops is eventually taken
LiveInit ==
    /\ Init
    /\ Cardinality(npu_placement) <= MaxLivePlacement

RouteStep ==
    \/ BfsStep
    \/ ReconstructStep
    \/ XStep
    \/ YStep

LiveSpec == LiveInit /\ [][Next]_vars /\ WF_vars(RouteStep)

\* a dense mesh, or an auto-numbered sparse mesh whose exclusion set names
\* no cell of the grid, on every grid of sides up to MaxFullSide
FullInit ==
    /\ \E w \in 1..MaxFullSide, h \in 1..MaxFullSide :
          \/ /\ ctor = "dense" /\ pc = "dense_links"
             /\ width = w /\ height = h
             /\ excluded = {} /\ npu_placement = {}
             /\ npus_count = w * h
             /\ valid_npu_count = 0
             /\ grid_to_npu = <<>> /\ npu_to_grid = <<>>
          \/ \E ex \in {{}} \cup {{c} : c \in Outside(w, h)} :
                /\ ctor = "auto" /\ pc = "assign"
                /\ width = w /\ height = h
                /\ excluded = ex /\ npu_placement = {}
                /\ npus_count = calculate_valid_npu_count(w, h, ex)
                /\ valid_npu_count = 0
                /\ grid_to_npu = [i \in 1..(w * h) |-> -1]
                /\ npu_to_grid = <<>>
    /\ cursor = 0
    /\ links = <<>>
    /\ oob = FALSE
    /\ NoCtorLocals
    /\ pending = {}
    /\ NoQuery
    /\ NoParser
    /\ other = Idle

FullNext ==
    \/ AssignStep
    \/ AutoLinkStep
    \/ DenseLinkStep
    \/ Return
    \/ SparseRouteCall
    \/ BfsStep
    \/ ReconstructStep
    \/ DenseRouteCall
    \/ XStep
    \/ YStep
    \/ QueryDone

FullSpec == FullInit /\ [][FullNext]_vars

\* ===================================================== reference notions
Sparse == ctor \in {"auto", "custom"}

\* the constructor has run to its end
Constructed == pc \in {"built", "ready"}

\* in-bounds, non-excluded cells of the grid
ValidCells == {c \in Cells(width, height) : c \notin excluded}

Adjacent(a, b) == Abs(a[1] - b[1]) + Abs(a[2] - b[2]) = 1

\* cells one hop away from the set S in the hole-punctured grid graph
Grow(S) == S \cup {c \in ValidCells : \E s \in S : Adjacent(s, c)}

\* hops from the set S (k hops from the start) to cell b; -1: unreachable
RECURSIVE HopsFrom(_, _, _)
HopsFrom(S, b, k) ==
    IF b \in S THEN k
    ELSE IF Grow(S) = S THEN -1
    ELSE HopsFrom(Grow(S), b, k + 1)

\* shortest-hop distance between two valid cells, -1 when not connected
GridDistance(a, b) == HopsFrom({a}, b, 0)

Ids == 0..(valid_npu_count - 1)

LinkSet == {links[i] : i \in DOMAIN links}

NoDuplicateLink == \A i, j \in DOMAIN links : links[i] = links[j] => i = j

\* unordered pairs of adjacent valid cells, each once
AdjacentCellPairs ==
    {p \in ValidCells \X ValidCells : PairLess(p[1], p[2]) /\ Adjacent(p[1], p[2])}

\* the placement entries whose coordinate is a valid position
EntryAtValidCell(e) == e[1] \in ValidCells

EntryIdInRange(e) == e[2] >= 0 /\ e[2] < valid_npu_count

\* the whole coordinate <-> id mapping is one-to-one and onto
Bijection ==
    /\ Len(npu_to_grid) = valid_npu_count
    /\ \A c \in ValidCells :
          /\ get_npu_at(c[1], c[2]) \in Ids
          /\ get_coords(get_npu_at(c[1], c[2])) = c
    /\ \A i \in Ids :
          /\ get_coords(i) \in ValidCells
          /\ get_npu_at(get_coords(i)[1], get_coords(i)[2]) = i

\* ================================================================ claims

\* C1: on a sparse mesh built by either constructor, a returned route
\* between two different devices whose cells are connected through valid
\* cells has exactly as many hops as the shortest path in the
\* hole-punctured grid graph.
C1_ShortestRoute ==
    (/\ Sparse
     /\ pc = "returned"
     /\ src # dest
     /\ GridDistance(get_coords(src), get_coords(dest)) >= 0)
    => Len(route) - 1 = GridDistance(get_coords(src), get_coords(dest))

\* a route that had to go around a hole: more hops than the straight
\* Manhattan distance of its end cells
C1_Witness ==
    /\ Sparse
    /\ pc = "returned"
    /\ src # dest
    /\ GridDistance(get_coords(src), get_coords(dest)) >= 0
    /\ Len(route) - 1 >
         Abs(get_coords(src)[1] - get_coords(dest)[1])
           + Abs(get_coords(src)[2] - get_coords(dest)[2])

\* C2: on a dense mesh every returned route has manhattan_distance(src,
\* dest) = |src%W - dest%W| + |src/W - dest/W| hops.
C2_DenseHops ==
    (ctor = "dense" /\ pc = "returned")
    => /\ Len(route) - 1 = manhattan_distance(src, dest)
       /\ Len(route) - 1 =
            Abs((src % width) - (dest % width))
              + Abs((src \div width) - (dest \div width))

\* a dense route that moved along both axes on a non-square grid
C2_Witness ==
    /\ ctor = "dense"
    /\ pc = "returned"
    /\ width # height
    /\ (src % width) # (dest % width)
    /\ (src \div width) # (dest \div width)
    /\ Len(route) >= 4

\* C3: once either sparse constructor has run, the coordinate <-> id
\* tables are a bijection between the valid cells and [0, valid_count).
C3_Bijection == (Sparse /\ Constructed) => Bijection

\* a custom-built mesh whose placement map held an entry that had to be
\* skipped and one that was applied, numbered differently from row-major
C3_Witness ==
    /\ ctor = "custom"
    /\ pc = "built"
    /\ valid_npu_count >= 3
    /\ \E e \in npu_placement : ~EntryAtValidCell(e) \/ ~EntryIdInRange(e)
    /\ \E e \in npu_placement :
          /\ EntryAtValidCell(e) /\ EntryIdInRange(e)
          /\ get_npu_at(e[1][1], e[1][2]) = e[2]
          /\ e[2] # Cardinality({c \in ValidCells :
                                   \/ c[2] < e[1][2]
                                   \/ (c[2] = e[1][2] /\ c[1] < e[1][1])})

\* C4: valid_npu_count and the device count handed to the base topology
\* are width*height minus the excluded coordinates inside the grid.
C4_ValidCount ==
    (Sparse /\ Constructed)
    => LET inside == {c \in excluded : c \in Cells(width, height)}
       IN  /\ valid_npu_count = (width * height) - Cardinality(inside)
           /\ npus_count = (width * height) - Cardinality(inside)

\* a built sparse mesh with an excluded cell inside and one outside the grid
C4_Witness ==
    /\ Sparse
    /\ pc = "built"
    /\ \E c \in excluded : c \in Cells(width, height)
    /\ \E c \in excluded : c \notin Cells(width, height)

\* C5: a route between two islands of a disconnected sparse mesh is not a
\* 1-element route.
C5_NoSilentSingleRoute ==
    (/\ Sparse
     /\ pc = "returned"
     /\ src # dest
     /\ GridDistance(get_coords(src), get_coords(dest)) = -1)
    => Len(route) # 1

\* C6: for an in-range id requested by two (or more) placement entries at
\* valid cells, exactly one of these entries is applied, the other cells
\* get another id of [0, valid_count), and the mapping is a bijection.
C6_DuplicateId ==
    (ctor = "custom" /\ pc = "built")
    => \A k \in Ids :
          LET R == {e \in npu_placement : EntryAtValidCell(e) /\ e[2] = k}
          IN  Cardinality(R) >= 2
              => /\ Cardinality({e \in R :
                                   get_npu_at(e[1][1], e[1][2]) = k}) = 1
                 /\ \A e \in R : get_npu_at(e[1][1], e[1][2]) \in Ids
                 /\ Bijection

\* a custom-built mesh whose placement map requested one id for two cells
C6_Witness ==
    /\ ctor = "custom"
    /\ pc = "built"
    /\ \E e1, e2 \in npu_placement :
          /\ e1 # e2
          /\ EntryAtValidCell(e1) /\ EntryAtValidCell(e2)
          /\ e1[2] = e2[2]
          /\ EntryIdInRange(e1)

\* C7: a placement entry with an out-of-bounds or excluded coordinate or
\* an out-of-range id is skipped: the step changes no table entry and the
\* constructor goes on; an entry passing all validations is written to
\* both tables, no assigned cell is ever reassigned, and so in the final
\* mapping every valid entry that is the only one asking for its id sits
\* at its cell.
C7_SkipInvalidApplyValid ==
    [][
        /\ (pc = "place" /\ pending # {})
           => LET coord == CHOOSE c \in pending : c \notin pending'
                  e == CHOOSE f \in npu_placement : f[1] = coord
                  bad == ~EntryAtValidCell(e) \/ ~EntryIdInRange(e)
              IN  /\ pending' = pending \ {coord}
                  /\ bad => /\ UNCHANGED <<grid_to_npu, npu_to_grid,
                                           used_npu_ids>>
                            /\ pc' = "place"
                  /\ (~bad /\ e[2] \notin used_npu_ids)
                     => /\ grid_to_npu'[(coord[2] * width) + coord[1] + 1]
                             = e[2]
                        /\ npu_to_grid'[e[2] + 1] = coord
        /\ (ctor = "custom" /\ pc \in {"place", "fill", "custom_links"})
           => \A i \in DOMAIN grid_to_npu :
                 grid_to_npu[i] >= 0 => grid_to_npu'[i] = grid_to_npu[i]
        /\ (ctor = "custom" /\ pc = "built")
           => \A e \in npu_placement :
                 (/\ EntryAtValidCell(e)
                  /\ EntryIdInRange(e)
                  /\ \A f \in npu_placement :
                        (EntryAtValidCell(f) /\ f[2] = e[2]) => f = e)
                 => get_npu_at(e[1][1], e[1][2]) = e[2]
    ]_vars

\* a custom-built mesh whose map held a skipped entry and an applied one
C7_Witness ==
    /\ ctor = "custom"
    /\ pc = "built"
    /\ \E e \in npu_placement :
          e[1] \in excluded /\ e[1] \in Cells(width, height)
    /\ \E e \in npu_placement :
          /\ EntryAtValidCell(e) /\ EntryIdInRange(e)
          /\ get_npu_at(e[1][1], e[1][2]) = e[2]

\* C8: after either sparse constructor the directed links are exactly the
\* ordered pairs of devices at adjacent valid cells, each registered once
\* (one connect per unordered pair), no link touches a hole, and a cell
\* without valid neighbour has no link.
C8_SparseLinks ==
    (Sparse /\ Constructed)
    => /\ \A l \in LinkSet : l[1] \in Ids /\ l[2] \in Ids
       /\ Bijection
       /\ LinkSet = {l \in Ids \X Ids :
                       Adjacent(get_coords(l[1]), get_coords(l[2]))}
       /\ \A l \in LinkSet : <<l[2], l[1]>> \in LinkSet
       /\ NoDuplicateLink
       /\ Len(links) = 2 * Cardinality(AdjacentCellPairs)
       /\ \A l \in LinkSet :
             get_coords(l[1]) \notin excluded /\ get_coords(l[2]) \notin excluded
       /\ \A c \in ValidCells :
             (\A n \in ValidCells : ~Adjacent(c, n))
             => \A l \in LinkSet :
                   /\ l[1] # get_npu_at(c[1], c[2])
                   /\ l[2] # get_npu_at(c[1], c[2])

\* a built sparse mesh with a linked pair and a fully isolated valid cell
C8_Witness ==
    /\ Sparse
    /\ pc = "built"
    /\ links # <<>>
    /\ excluded \cap Cells(width, height) # {}
    /\ \E c \in ValidCells : \A n \in ValidCells : ~Adjacent(c, n)

\* C9: a dense W x H mesh has exactly 2*(W*(H-1) + H*(W-1)) directed
\* links, no pair of devices is connected twice, and 1x1 has none.
C9_DenseLinkCount ==
    (ctor = "dense" /\ Constructed)
    => /\ Len(links) =
            2 * ((width * (height - 1)) + (height * (width - 1)))
       /\ pc = "built"
          => link_count =
               2 * ((width * (height - 1)) + (height * (width - 1)))
       /\ NoDuplicateLink
       /\ (width = 1 /\ height = 1) => links = <<>>

\* a built dense mesh with rows and columns
C9_Witness ==
    /\ ctor = "dense"
    /\ pc = "built"
    /\ width >= 2 /\ height >= 2
    /\ width # height
    /\ links # <<>>

\* C10: route(src, src) returns [src] on the dense and on the sparse mesh.
C10_SelfRoute ==
    (pc = "returned" /\ src = dest) => route = <<src>>

\* route(src, src) returned on a sparse mesh that is not connected
C10_Witness ==
    /\ Sparse
    /\ pc = "returned"
    /\ src = dest
    /\ route = <<src>>
    /\ \E c \in ValidCells : GridDistance(get_coords(src), c) = -1

\* C11: route(src, dest) fails when src or dest is outside [0, npus_count)
\* on a dense mesh, outside [0, valid_count) on a sparse mesh (negative ids
\* included): the call aborts at its assertions, and neither a route
\* computation is running nor a route is returned with such arguments.
C11_RouteOutOfRange ==
    LET n == IF Sparse THEN valid_npu_count ELSE npus_count
        in_range == src \in 0..(n - 1) /\ dest \in 0..(n - 1)
    IN  /\ pc \in {"bfs", "reconstruct", "xwalk", "ywalk", "returned"}
           => in_range
        /\ pc = "aborted" => (route = <<>> /\ ~in_range)

\* a sparse route() called with a valid src and dest = valid_count aborted
C11_Witness ==
    /\ Sparse
    /\ pc = "aborted"
    /\ valid_npu_count >= 2
    /\ src \in Ids
    /\ dest = valid_npu_count
    /\ route = <<>>

\* no constructor has run: no devices, no tables, no links
NothingBuilt ==
    /\ ctor = "none"
    /\ width = 0 /\ height = 0
    /\ npus_count = 0 /\ valid_npu_count = 0
    /\ grid_to_npu = <<>> /\ npu_to_grid = <<>>
    /\ links = <<>>

\* construct_topology took the flat-count dense constructor
FlatSelected ==
    /\ pc # "select"
    /\ dims_count = 1
    /\ topology_type = "Mesh2D"
    /\ ~(mesh_width > 0 /\ mesh_height > 0)

C13_DenseSelection ==
    (pc # "select" /\ dims_count = 1 /\ topology_type = "Mesh2D")
    => /\ ctor = "dense"
       /\ IF mesh_width > 0 /\ mesh_height > 0
          THEN /\ width = mesh_width /\ height = mesh_height
               /\ npus_count = mesh_width * mesh_height
               /\ pc # "ctor_aborted"
               /\ Constructed
                  => Len(links) = 2 * ((mesh_width * (mesh_height - 1))
                                        + (mesh_height * (mesh_width - 1)))
          ELSE parser_npus_count >= 1
               => /\ width = height
                  /\ width * width <= parser_npus_count
                  /\ (width + 1) * (width + 1) > parser_npus_count
                  /\ npus_count = width * width

\* a 2 x 1 mesh was built although the flat device count asks for 9
C13_Witness ==
    /\ topology_type = "Mesh2D"
    /\ dims_count = 1
    /\ mesh_width = 2 /\ mesh_height = 1
    /\ parser_npus_count = 9
    /\ ctor = "dense" /\ pc = "built"
    /\ width = 2 /\ height = 1
    /\ Len(links) = 2

\* C14: a one-dimensional sparse-mesh request ends in the fatal
\* configuration error, with no topology constructed, whenever mesh_width
\* <= 0 or mesh_height <= 0, and constructs a sparse mesh of that width and
\* height, never the error, whenever both are > 0.
C14_SparseSelection ==
    (pc # "select" /\ dims_count = 1 /\ topology_type = "SparseMesh2D")
    => IF mesh_width <= 0 \/ mesh_height <= 0
       THEN pc = "exited" /\ NothingBuilt
       ELSE /\ Sparse
            /\ pc \notin {"exited", "ctor_aborted"}
            /\ width = mesh_width /\ height = mesh_height
            /\ Constructed => Bijection

\* the error for a sparse request with a width but no height
C14_Witness ==
    /\ topology_type = "SparseMesh2D"
    /\ dims_count = 1
    /\ mesh_width > 0 /\ mesh_height <= 0
    /\ pc = "exited"
    /\ NothingBuilt

\* C15: whenever the dimension count is not exactly 1 the selector ends in
\* the fatal configuration error, for every topology kind, and no
\* constructor has run: no devices, no links.
C15_DimsError ==
    dims_count # 1
    => /\ pc \in {"select", "exited"}
       /\ NothingBuilt

\* the error for a two-dimensional sparse request whose width and height
\* are given
C15_Witness ==
    /\ dims_count = 2
    /\ topology_type = "SparseMesh2D"
    /\ mesh_width > 0 /\ mesh_height > 0
    /\ pc = "exited"
    /\ NothingBuilt

\* C16: once the constructor has returned, route() calls, one after the
\* other or interleaved step by step, change neither the coordinate <-> id
\* tables nor the exclusion set nor the links, and a call returns the route
\* it returns when it runs alone with the same src and dest.
C16_QueriesIndependent ==
    [][
        /\ pc \in QueryPhases => UNCHANGED tables
        /\ pc' = "returned" => route' = route_alone(src', dest')
        /\ other'.pc = "returned"
           => other'.route = route_alone(other'.src, other'.dest)
    ]_vars

\* a BFS call returned a route of three or more devices while the other
\* call, with another destination, was suspended in the middle of its BFS
C16_Witness ==
    /\ Sparse
    /\ pc = "returned"
    /\ Len(route) >= 3
    /\ other.pc = "bfs"
    /\ other.visited # {}
    /\ other.dest # dest

\* the cells of ValidCells that come before cell c in row-major order
RowMajorBefore(c) ==
    {b \in ValidCells : b[2] < c[2] \/ (b[2] = c[2] /\ b[1] < c[1])}

\* the XY path from device s to device d of a dense mesh: along row s_y
\* from column s_x to column d_x, then along column d_x to row d_y
XYPath(s, d) ==
    LET sx == s % width
        sy == s \div width
        dx == d % width
        dy == d \div width
        nx == Abs(dx - sx)
        ny == Abs(dy - sy)
        gx == IF dx > sx THEN 1 ELSE -1
        gy == IF dy > sy THEN 1 ELSE -1
    IN  [i \in 1..(nx + ny + 1) |->
            IF i <= nx + 1
            THEN (sy * width) + sx + (gx * (i - 1))
            ELSE ((sy + (gy * (i - 1 - nx))) * width) + dx]

\* C17: on a dense mesh route(src, dest), src # dest, is exactly the XY
\* path: from src one column at a time along row src_y to column dest_x,
\* then one row at a time along column dest_x to dest; all X moves come
\* before all Y moves, consecutive devices are adjacent in the grid, and no
\* device appears twice.
C17_XYPath ==
    (ctor = "dense" /\ pc = "returned" /\ src # dest)
    => /\ route = XYPath(src, dest)
       /\ route[1] = src
       /\ route[Len(route)] = dest
       /\ \A i \in 1..(Len(route) - 1) :
             Adjacent(get_2d_coords(route[i]), get_2d_coords(route[i + 1]))
       /\ \A i, j \in 1..(Len(route) - 1) :
             (/\ i < j
              /\ get_2d_coords(route[i])[2] # get_2d_coords(route[i + 1])[2])
             => get_2d_coords(route[j])[1] = get_2d_coords(route[j + 1])[1]
       /\ \A i, j \in 1..Len(route) : route[i] = route[j] => i = j

\* a dense route that went left and then up, on a grid that is not square
C17_Witness ==
    /\ ctor = "dense"
    /\ pc = "returned"
    /\ width # height
    /\ (dest % width) < (src % width)
    /\ (dest \div width) < (src \div width)
    /\ Len(route) >= 4

\* C18: on a sparse mesh built by either constructor the BFS expands over
\* the adjacency the links were created for: for a valid cell p, a
\* coordinate n is among get_valid_neighbors(p) exactly when a link joins
\* the devices at p and n; so a route to a reachable dest starts at src,
\* ends at dest, and follows a link at each step.
C18_SameAdjacency ==
    /\ (Sparse /\ Constructed)
       => \A p \in ValidCells :
             LET ns == get_valid_neighbors(p[1], p[2]) IN
             \A n \in ((-1)..width) \X ((-1)..height) :
                (\E i \in 1..Len(ns) : ns[i] = n)
                <=> (<<get_npu_at(p[1], p[2]), get_npu_at(n[1], n[2])>>
                       \in LinkSet)
    /\ (/\ Sparse
        /\ pc = "returned"
        /\ src # dest
        /\ GridDistance(get_coords(src), get_coords(dest)) >= 0)
       => /\ route[1] = src
          /\ route[Len(route)] = dest
          /\ \A i \in 1..(Len(route) - 1) :
                <<route[i], route[i + 1]>> \in LinkSet

\* a route of a custom-placed mesh that went around a hole, over links only
C18_Witness ==
    /\ ctor = "custom"
    /\ pc = "returned"
    /\ excluded \cap Cells(width, height) # {}
    /\ Len(route) >= 3
    /\ route[Len(route)] = dest
    /\ \A i \in 1..(Len(route) - 1) : <<route[i], route[i + 1]>> \in LinkSet
    /\ \E i \in 1..(Len(route) - 1) : route[i + 1] # route[i] + 1

\* C19: the auto-numbering constructor numbers the valid cells in row-major
\* scan order from 0: the id of a valid cell is the number of valid cells
\* before it in row-major order (smaller y, or the same y and smaller x),
\* so the ids are contiguous and increase along the scan.
C19_RowMajorNumbering ==
    (ctor = "auto" /\ Constructed)
    => /\ \A c \in ValidCells :
             get_npu_at(c[1], c[2]) = Cardinality(RowMajorBefore(c))
       /\ \A i \in 1..Len(npu_to_grid) :
             /\ npu_to_grid[i] \in ValidCells
             /\ Cardinality(RowMajorBefore(npu_to_grid[i])) = i - 1
       /\ \A c \in Cells(width, height) \ ValidCells :
             get_npu_at(c[1], c[2]) = -1

\* an auto-numbered mesh of several rows and columns with a hole before a
\* valid cell of a later row
C19_Witness ==
    /\ ctor = "auto"
    /\ pc = "built"
    /\ width >= 2 /\ height >= 2
    /\ \E c \in ValidCells :
          /\ c[2] >= 1
          /\ get_npu_at(c[1], c[2]) # (c[2] * width) + c[1]
          /\ get_npu_at(c[1], c[2]) >= 2

\* the placement entries that were applied, and the valid cells left to
\* the fallback
AppliedEntries ==
    {e \in npu_placement :
        EntryAtValidCell(e) /\ get_npu_at(e[1][1], e[1][2]) = e[2]}

FallbackCells == ValidCells \ {e[1] : e \in AppliedEntries}

FallbackIds == Ids \ {e[2] : e \in AppliedEntries}

\* C20: when the placement entries assigned fewer than valid_count ids, the
\* fallback goes through the unassigned valid cells in row-major order and
\* gives each the lowest id of [0, valid_count) not yet used: the k-th
\* such cell holds the k-th smallest id no entry took; no id >= valid_count
\* is assigned and no valid cell stays unassigned.
C20_FallbackLowestUnused ==
    /\ (ctor = "custom" /\ pc = "built")
       => /\ \A c \in FallbackCells :
                /\ get_npu_at(c[1], c[2]) \in FallbackIds
                /\ Cardinality({b \in FallbackCells : b \in RowMajorBefore(c)})
                     = Cardinality({k \in FallbackIds :
                                      k < get_npu_at(c[1], c[2])})
          /\ \A c \in ValidCells : get_npu_at(c[1], c[2]) \in Ids
    /\ (ctor = "custom" /\ pc = "fill")
       => /\ \A k \in 0..(next_auto_id - 1) : k \in used_npu_ids
          /\ used_npu_ids \subseteq Ids
          /\ next_auto_id <= valid_npu_count
    /\ ctor = "custom" => ~oob

\* a custom-built mesh where an entry took id 1 and the fallback numbered
\* a cell below it and a cell above it
C20_Witness ==
    /\ ctor = "custom"
    /\ pc = "built"
    /\ \E e \in AppliedEntries : e[2] = 1
    /\ \E c \in FallbackCells : get_npu_at(c[1], c[2]) = 0
    /\ \E c \in FallbackCells : get_npu_at(c[1], c[2]) >= 2

\* the coordinate pairs the auto-numbering constructor links on a w x h
\* grid with exclusion set ex: every valid cell with its valid right and
\* bottom neighbour, in both directions
AutoLinkedCells(w, h, ex) ==
    LET valid == {c \in Cells(w, h) : c \notin ex}
        right == {<<c, <<c[1] + 1, c[2]>>>> : c \in valid}
        bottom == {<<c, <<c[1], c[2] + 1>>>> : c \in valid}
        made == {p \in right \cup bottom : p[2] \in valid}
    IN  made \cup {<<p[2], p[1]>> : p \in made}

\* the coordinate pairs the registered links connect
LinkedCells == {<<get_coords(l[1]), get_coords(l[2])>> : l \in LinkSet}

\* C21: after either sparse constructor, whatever the placement map, the
\* linked coordinate pairs are those the auto-numbering constructor links
\* for the same width, height and exclusion set, and the endpoint ids of
\* every link are the ids the final mapping gives to its two coordinates.
C21_SameLinkedCells ==
    (Sparse /\ Constructed)
    => /\ \A l \in LinkSet : l[1] \in Ids /\ l[2] \in Ids
       /\ LinkedCells = AutoLinkedCells(width, height, excluded)
       /\ \A l \in LinkSet :
             /\ get_npu_at(get_coords(l[1])[1], get_coords(l[1])[2]) = l[1]
             /\ get_npu_at(get_coords(l[2])[1], get_coords(l[2])[2]) = l[2]
       /\ \A p \in AutoLinkedCells(width, height, excluded) :
             <<get_npu_at(p[1][1], p[1][2]), get_npu_at(p[2][1], p[2][2])>>
                \in LinkSet

\* a custom-built mesh with links whose placement map had a skipped entry
\* and an applied entry that puts a higher id left of or above a lower one
C21_Witness ==
    /\ ctor = "custom"
    /\ pc = "built"
    /\ \E e \in npu_placement : e \notin AppliedEntries
    /\ \E e \in AppliedEntries : e[2] # Cardinality(RowMajorBefore(e[1]))
    /\ \E l \in LinkSet :
          /\ PairLess(get_coords(l[1]), get_coords(l[2]))
          /\ l[1] > l[2]

\* the destination of the running sparse query cannot be reached from its
\* source through valid cells
Unreachable ==
    /\ Sparse
    /\ src # dest
    /\ route_precondition(src, dest, valid_npu_count)
    /\ GridDistance(get_coords(src), get_coords(dest)) = -1

\* C22: on a sparse mesh, when the destination's cell cannot be reached
\* from the source's cell through valid cells (src # dest), the search
\* never visits the destination and never reconstructs a path: it runs
\* until its queue is empty and route returns the one-element route of
\* the source device, without aborting.
C22_UnreachableSingleRoute ==
    /\ (pc \in {"bfs", "reconstruct"} /\ Unreachable)
       => /\ pc = "bfs"
          /\ get_coords(dest) \notin visited
          /\ \A i \in 1..Len(q) : q[i] # get_coords(dest)
    /\ (pc = "returned" /\ Unreachable)
       => /\ route = <<src>>
          /\ q = <<>>
          /\ ~oob

\* a returned query between two islands of a sparse mesh, where the
\* source's island has more than one cell
C22_Witness ==
    /\ pc = "returned"
    /\ Unreachable
    /\ route = <<src>>
    /\ \E c \in ValidCells : Adjacent(c, get_coords(src))

\* a route query is inside one of its loops
Running == pc \in {"bfs", "reconstruct", "xwalk", "ywalk"}

QueueCells == {q[i] : i \in DOMAIN q}

PathCells == {path[i] : i \in DOMAIN path}

ParentKeys == {e[1] : e \in parent}

\* what is left to do for the search: cells not yet visited count twice,
\* cells waiting in the queue once
BfsRemaining == (2 * Cardinality(ValidCells \ visited)) + Len(q)

\* where the loops of a running query stand
QueryBounded ==
    /\ pc = "xwalk"
       => LET s == get_2d_coords(src)  d == get_2d_coords(dest) IN
          /\ wy = s[2]
          /\ Abs(d[1] - wx) + Abs(wx - s[1]) = Abs(d[1] - s[1])
          /\ Len(route) = 1 + Abs(wx - s[1])
    /\ pc = "ywalk"
       => LET s == get_2d_coords(src)  d == get_2d_coords(dest) IN
          /\ wx = d[1]
          /\ Abs(d[2] - wy) + Abs(wy - s[2]) = Abs(d[2] - s[2])
          /\ Len(route) = 1 + Abs(d[1] - s[1]) + Abs(wy - s[2])
    /\ (pc = "returned" /\ ctor = "dense" /\ src # dest)
       => LET s == get_2d_coords(src)  d == get_2d_coords(dest) IN
          Len(route) = 1 + Abs(d[1] - s[1]) + Abs(d[2] - s[2])
    /\ pc = "bfs"
       => /\ \A i, j \in DOMAIN q : q[i] = q[j] => i = j
          /\ QueueCells \subseteq visited
          /\ visited \subseteq ValidCells
          /\ ParentKeys = visited
    /\ pc = "reconstruct"
       => /\ \A i, j \in DOMAIN path : path[i] = path[j] => i = j
          /\ PathCells \subseteq ParentKeys
          /\ ParentKeys \subseteq ValidCells
          /\ current = <<-1, -1>> \/ current \in ParentKeys \ PathCells

\* what one iteration of each loop changes
QueryStepDecreases ==
    /\ (pc = "xwalk" /\ pc' = "xwalk")
       => /\ Abs(get_2d_coords(dest)[1] - wx')
               = Abs(get_2d_coords(dest)[1] - wx) - 1
          /\ wy' = wy
          /\ Len(route') = Len(route) + 1
    /\ (pc = "ywalk" /\ pc' = "ywalk")
       => /\ Abs(get_2d_coords(dest)[2] - wy')
               = Abs(get_2d_coords(dest)[2] - wy) - 1
          /\ wx' = wx
          /\ Len(route') = Len(route) + 1
    /\ (pc = "bfs" /\ pc' = "bfs")
       => /\ visited \subseteq visited'
          /\ QueueCells' \ QueueCells = visited' \ visited
          /\ Len(q') = (Len(q) - 1) + Cardinality(visited' \ visited)
          /\ BfsRemaining' < BfsRemaining
    /\ (pc = "reconstruct" /\ pc' = "reconstruct")
       => /\ path' = Append(path, current)
          /\ current \notin PathCells
          /\ parent' = parent

\* C23: every route query terminates. The dense walk changes x by one
\* towards the destination column in each X step and y by one towards the
\* destination row in each Y step, so it ends after |dx| + |dy| steps; the
\* sparse search enqueues a cell only when it first visits it, so every
\* valid cell is enqueued at most once; the reconstruction follows parent
\* entries through cells it has not yet put on the path, back to the
\* source; and a query inside any of these loops eventually returns.
C23_QueryTerminates ==
    /\ []QueryBounded
    /\ [][QueryStepDecreases]_vars
    /\ (Running ~> (pc = "returned"))

\* a sparse search that has reached a cell two hops away while cells still
\* wait in its queue
C23_Witness ==
    /\ pc = "bfs"
    /\ Len(q) >= 2
    /\ Cardinality(visited) >= 4
    /\ \E c \in visited : GridDistance(get_coords(src), c) >= 2

\* the links the dense constructor registers on a width x height grid, from
\* cell number k on
RECURSIVE dense_links_from(_, _)
dense_links_from(ls, k) ==
    IF k >= width * height THEN ls
    ELSE dense_links_from(
             connect_all(ls, dense_cell_connects(k % width, k \div width)),
             k + 1)

DenseLinks == dense_links_from(<<>>, 0)

NoHoles == excluded \cap Cells(width, height) = {}

\* C24: a sparse mesh built by the auto-numbering constructor whose
\* exclusion set names no cell of the grid is the dense mesh of the same
\* width and height: the device at (x, y) is y*width + x, the link set is
\* the dense constructor's, and every route the BFS returns is the device
\* sequence of the dense XY route (along the row first, then the column).
\* The dense constructor and the dense route are what DenseLinks and
\* xy_route_alone say they are.
C24_NoHolesIsDense ==
    /\ (ctor = "dense" /\ Constructed) => links = DenseLinks
    /\ (ctor = "dense" /\ pc = "returned")
       => route = (IF src = dest THEN <<src>> ELSE xy_route_alone(src, dest))
    /\ (ctor = "auto" /\ Constructed /\ NoHoles)
       => /\ valid_npu_count = width * height
          /\ \A c \in Cells(width, height) :
                /\ get_npu_at(c[1], c[2]) = (c[2] * width) + c[1]
                /\ get_npu_at(c[1], c[2]) = coords_to_npu_id(c[1], c[2])
                /\ get_coords(get_npu_at(c[1], c[2]))
                     = get_2d_coords(coords_to_npu_id(c[1], c[2]))
          /\ LinkSet = {DenseLinks[i] : i \in DOMAIN DenseLinks}
    /\ (ctor = "auto" /\ pc = "returned" /\ NoHoles)
       => route = (IF src = dest THEN <<src>> ELSE xy_route_alone(src, dest))

\* a route returned by the BFS on a full sparse grid from a cell with four
\* neighbours to a cell in another row and another column
C24_Witness ==
    /\ ctor = "auto"
    /\ NoHoles
    /\ pc = "returned"
    /\ Len(get_valid_neighbors(get_coords(src)[1], get_coords(src)[2])) = 4
    /\ get_coords(src)[1] # get_coords(dest)[1]
    /\ get_coords(src)[2] # get_coords(dest)[2]
    /\ Len(route) = 3

\* the keys of the placement map the loop has already gone through
Processed == {e[1] : e \in npu_placement} \ pending

\* C25: the custom-placement constructor goes through the placement
\* entries in ascending order of (x, then y): every entry already processed
\* comes before every entry still to come in that order. So when several
\* entries at valid cells ask for the same in-range id, the one whose
\* coordinate is first in that order (smallest x, then smallest y) holds
\* the id in the final mapping, and the cells of the others get other ids
\* of [0, valid_count).
C25_MapOrder ==
    /\ (ctor = "custom" /\ pc = "place")
       => /\ pending \subseteq {e[1] : e \in npu_placement}
          /\ \A a \in Processed : \A b \in pending : PairLess(a, b)
    /\ (ctor = "custom" /\ pc = "built")
       => \A k \in Ids :
             LET R == {e \in npu_placement : EntryAtValidCell(e) /\ e[2] = k}
                 first == FirstKey({e[1] : e \in R})
             IN  Cardinality(R) >= 2
                 => /\ get_npu_at(first[1], first[2]) = k
                    /\ \A e \in R :
                          e[1] # first
                          => /\ get_npu_at(e[1][1], e[1][2]) # k
                             /\ get_npu_at(e[1][1], e[1][2]) \in Ids

\* a custom-built 2x2 mesh where the entries at (0,1) and (1,0) asked for
\* the same id: (0,1), first by x, holds it, although (1,0) is first in
\* row-major order
C25_Witness ==
    /\ ctor = "custom"
    /\ pc = "built"
    /\ \E k \in Ids :
          /\ <<(<<0, 1>>), k>> \in npu_placement
          /\ <<(<<1, 0>>), k>> \in npu_placement
          /\ {<<0, 1>>, <<1, 0>>} \subseteq ValidCells
          /\ get_npu_at(0, 1) = k
          /\ get_npu_at(1, 0) # k

\* the coordinates of the grid and one step beyond each border
Window == ((-1)..width) \X ((-1)..height)

\* the coordinate holds a device of the list
HoldsDevice(c) ==
    get_npu_at(c[1], c[2]) >= 0 /\ get_npu_at(c[1], c[2]) < npus_count

\* C26: route never indexes the device list out of range. After either
\* sparse constructor a coordinate, in the grid or not, is a valid position
\* exactly when get_npu_at gives it an id >= 0, and that id is below
\* valid_count, the length of the device list; so every cell the BFS
\* visits, enqueues or puts on a path holds a device and never the -1
\* sentinel. On a dense mesh the XY walk stays inside the grid and every
\* device it appends is in [0, width*height). No vector is ever indexed
\* out of range.
C26_NoOutOfRangeIndex ==
    /\ ~oob
    /\ (Sparse /\ Constructed)
       => /\ npus_count = valid_npu_count
          /\ \A c \in Window :
                /\ is_valid_position(c[1], c[2]) <=> get_npu_at(c[1], c[2]) >= 0
                /\ get_npu_at(c[1], c[2]) >= 0 => HoldsDevice(c)
    /\ (Sparse /\ pc = "bfs")
       => \A c \in visited \cup QueueCells : HoldsDevice(c)
    /\ (Sparse /\ pc = "reconstruct")
       => /\ \A c \in PathCells : HoldsDevice(c)
          /\ current # <<-1, -1>> => HoldsDevice(current)
    /\ (ctor = "dense" /\ pc \in {"xwalk", "ywalk"})
       => /\ npus_count = width * height
          /\ 0 <= wx /\ wx < width
          /\ 0 <= wy /\ wy < height
          /\ route[Len(route)] = coords_to_npu_id(wx, wy)
    /\ pc \in {"bfs", "reconstruct", "xwalk", "ywalk", "returned"}
       => /\ 0 <= src /\ src < npus_count
          /\ 0 <= dest /\ dest < npus_count
          /\ IdsInRange(route, npus_count)

\* a route of three devices returned on a sparse mesh that passes next to
\* a hole
C26_Witness ==
    /\ Sparse
    /\ pc = "returned"
    /\ Len(route) >= 3
    /\ \E c \in excluded \cap Cells(width, height) :
          Adjacent(c, get_coords(route[2]))

====
